---- MODULE Spec2Model ----
(***************************************************************************)
(* JGControlBox monitor (JGCBMonitor.py): a recurring task polls a fixed   *)
(* point list over BACnet one request at a time, collects the responses    *)
(* and publishes them to an MQTT broker; a disconnect handler retries the  *)
(* broker connection with a growing delay.                                 *)
(*                                                                         *)
(* Python handlers run to completion on the event loop, so each handler    *)
(* is one action.  The reconnect loop of on_mqtt_disconnect blocks in      *)
(* time.sleep and in client.reconnect, so it is cut at those two calls.    *)
(* The program starts no thread of its own, so while that loop is running  *)
(* the one thread is inside it and no other handler runs.                  *)
(***************************************************************************)
EXTENDS Naturals, Sequences, FiniteSets

\* ---------------------------------------------------------------- bounds
\* longest point list drawn for GS4_point_list (the shipped list has 8 points)
MaxPoints == 8
\* longest topic list drawn for mqtt_JGCB_topics (the shipped list has 2)
MaxTopics == 2
\* number of poll cycles a behaviour may start
MaxCycles == 2
\* number of failed reconnect attempts followed within one disconnection
MaxFailures == 10
\* longest point list drawn for the specification with fairness
MaxLivePoints == 4

\* ------------------------------------------------------------- constants
\* read_GS4_complete publishes response_values[idx .. idx+3] and steps idx by 4
GroupSize == 4
\* reconnect delays in hundredths of a second (1.25 s, x2, 320 s)
mqtt_first_reconnect_delay == 125
mqtt_reconnect_rate == 2
mqtt_max_reconnect_delay == 32000

VARIABLES
    GS4_point_list,     \* configured points, in order (never changes)
    mqtt_JGCB_topics,   \* configured topics, in order (never changes)
    GS4_busy,           \* PrairieDog.GS4_busy
    arduino1_busy,      \* PrairieDog.arduino1_busy
    point_queue,        \* PrairieDog.point_queue (deque)
    response_values,    \* PrairieDog.response_values (list)
    iocbs,              \* requests handed to request_io and not yet answered
    deferredFns,        \* pending deferred(next_GS4_request) entries
    raised,             \* exception that escaped a poll handler, or "none":
                        \* the handler's remaining statements have not run
    published,          \* calls made to mqtt_client.publish, in order
    subscribed,         \* topics passed to client.subscribe
    mqtt_connected,     \* module global read by read_GS4_complete
    broker_link,        \* the broker's view: TRUE between a successful
                        \* connect/reconnect and the next disconnect event
    rc_pc,              \* position of on_mqtt_disconnect: idle, sleep, attempt
    reconnect_delay,    \* its local reconnect_delay (0 while idle)
    failures,           \* failed client.reconnect() calls of the running loop
    fallback_count,     \* times the loop reached its "fallback to LoRa" branch
    cycle,              \* number of poll cycles started
    issued,             \* requests issued in the current cycle
    answered,           \* response callbacks run in the current cycle
    last                \* where the latest handler stopped

pollvars == <<GS4_busy, arduino1_busy, point_queue, response_values, iocbs,
              deferredFns, raised, published, cycle, issued, answered>>
mqttvars == <<subscribed, mqtt_connected, broker_link, rc_pc, reconnect_delay,
              failures, fallback_count>>
confvars == <<GS4_point_list, mqtt_JGCB_topics>>
vars == <<confvars, pollvars, mqttvars, last>>

\* ------------------------------------------------------------------ data
\* a point of the list: its position and whether get_datatype knows its
\* (object type, property) pair
PointSpec(i, known) == [id |-> i, known |-> known]

\* The point lists drawn: every length up to MaxPoints, with all datatypes
\* known or with one point of unknown datatype at any position.  A cycle never
\* gets past its first such point and no later cycle starts, so a second
\* unknown point further down the list would never be looked at.
PointLists ==
    UNION { { [i \in 1..n |-> PointSpec(i, i \notin bad)] :
                  bad \in {{}} \cup { {b} : b \in 1..n } }
            : n \in 0..MaxPoints }

TopicLists == { [i \in 1..t |-> i] : t \in 1..MaxTopics }

\* what a request comes back with: a value (ioResponse, a ReadPropertyACK of
\* a known datatype), an error/reject/abort (ioError), or an ack whose
\* datatype is unknown.  A confirmed request is always completed with one of
\* ioError and ioResponse, so the callback's last branch (neither set) is
\* modelled but never drawn.
Responses == {"Ok", "Err", "BadType"}

\* arguments of publish(): a collected result, a topic, or an omitted argument
Value(kind, pt, cyc) == [kind |-> kind, pt |-> pt, cyc |-> cyc]
TopicArg(t) == [kind |-> "topic", pt |-> t, cyc |-> 0]
NoneArg == [kind |-> "None", pt |-> 0, cyc |-> 0]

Min(a, b) == IF a < b THEN a ELSE b

\* ------------------------------------------------------------ poll side
\* get_datatype(obj_id[0], prop_id): falsy when the pair is not a known one
get_datatype(p) == p.known

\* is_busy without its first test
is_busy_ignores_GS4 ==
    IF arduino1_busy THEN TRUE
    ELSE FALSE

\* PrairieDog.is_busy
is_busy ==
    IF GS4_busy THEN TRUE
    ELSE IF arduino1_busy THEN TRUE
    ELSE FALSE

\* self.mqtt_client.publish(x): x arrives as publish()'s first parameter,
\* the topic; the payload parameter is left at its default
publish(x) == [topic |-> x, payload |-> NoneArg]

\* the "for topic in mqtt_JGCB_topics" loop of read_GS4_complete from topic t
\* on, over values v: the publish calls made so far and the exception, if any.
\* Indexing v past its end raises IndexError: in the publish calls when
\* connected (those before the bad index have been made), else in the print.
RECURSIVE publish_loop(_, _, _, _)
publish_loop(v, connected, t, pubs) ==
    IF t > Len(mqtt_JGCB_topics) THEN [published |-> pubs, raised |-> "none"]
    ELSE LET idx  == GroupSize * (t - 1)
             have == Min(GroupSize, IF Len(v) > idx THEN Len(v) - idx ELSE 0)
             sent == IF connected = TRUE
                     THEN pubs \o [k \in 1..have |-> publish(v[idx + k])]
                     ELSE pubs
         IN  IF have < GroupSize
             THEN [published |-> sent, raised |-> "IndexError"]
             ELSE publish_loop(v, connected, t + 1, sent)

\* PrairieDog.read_GS4_complete, entered with GS4_busy set
read_GS4_complete(v) ==
    LET r == publish_loop(v, mqtt_connected, 1, published)
    IN  /\ published' = r.published
        /\ IF r.raised = "none"
           THEN /\ GS4_busy' = FALSE
                /\ raised' = raised
                /\ last' = "read_GS4_complete"
           ELSE /\ GS4_busy' = TRUE
                /\ raised' = r.raised
                /\ last' = "raise"

\* next_GS4_request taking the queue's right end (pop for popleft)
next_GS4_request_pops_right(q, v, n, cyc) ==
    IF q = <<>>
    THEN /\ read_GS4_complete(v)
         /\ point_queue' = q
         /\ iocbs' = iocbs
         /\ issued' = n
    ELSE LET p == q[Len(q)]
         IN  /\ point_queue' = SubSeq(q, 1, Len(q) - 1)
             /\ published' = published
             /\ GS4_busy' = TRUE
             /\ IF ~get_datatype(p)
                THEN /\ raised' = "ValueError"
                     /\ iocbs' = iocbs
                     /\ issued' = n
                     /\ last' = "raise"
                ELSE /\ raised' = raised
                     /\ iocbs' = Append(iocbs, [pt |-> p.id, cyc |-> cyc])
                     /\ issued' = n + 1
                     /\ last' = "request_io"

\* next_GS4_request completing while one point is still queued
next_GS4_request_completes_early(q, v, n, cyc) ==
    IF Len(q) <= 1
    THEN /\ read_GS4_complete(v)
         /\ point_queue' = q
         /\ iocbs' = iocbs
         /\ issued' = n
    ELSE LET p == Head(q)
         IN  /\ point_queue' = Tail(q)
             /\ published' = published
             /\ GS4_busy' = TRUE
             /\ IF ~get_datatype(p)
                THEN /\ raised' = "ValueError"
                     /\ iocbs' = iocbs
                     /\ issued' = n
                     /\ last' = "raise"
                ELSE /\ raised' = raised
                     /\ iocbs' = Append(iocbs, [pt |-> p.id, cyc |-> cyc])
                     /\ issued' = n + 1
                     /\ last' = "request_io"

\* PrairieDog.next_GS4_request on queue q, with n requests issued so far in
\* cycle cyc and response list v
next_GS4_request(q, v, n, cyc) ==
    IF q = <<>>
    THEN /\ read_GS4_complete(v)
         /\ point_queue' = q
         /\ iocbs' = iocbs
         /\ issued' = n
    ELSE LET p == Head(q)
         IN  /\ point_queue' = Tail(q)
             /\ published' = published
             /\ GS4_busy' = TRUE
             /\ IF ~get_datatype(p)
                THEN /\ raised' = "ValueError"
                     /\ iocbs' = iocbs
                     /\ issued' = n
                     /\ last' = "raise"
                ELSE /\ raised' = raised
                     /\ iocbs' = Append(iocbs, [pt |-> p.id, cyc |-> cyc])
                     /\ issued' = n + 1
                     /\ last' = "request_io"

\* process_task resetting the queue and the response list before the
\* busy test
process_task_resets_before_check ==
    IF is_busy
    THEN /\ point_queue' = GS4_point_list
         /\ response_values' = <<>>
         /\ last' = "is_busy"
         /\ UNCHANGED <<confvars, mqttvars, GS4_busy, arduino1_busy, iocbs,
                        deferredFns, raised, published, cycle, issued, answered>>
    ELSE /\ cycle < MaxCycles
         /\ cycle' = cycle + 1
         /\ response_values' = <<>>
         /\ answered' = 0
         /\ next_GS4_request(GS4_point_list, <<>>, 0, cycle + 1)
         /\ UNCHANGED <<confvars, mqttvars, arduino1_busy, deferredFns>>

\* process_task without "self.response_values = []"
process_task_keeps_responses ==
    IF is_busy
    THEN /\ last' = "is_busy"
         /\ UNCHANGED <<confvars, pollvars, mqttvars>>
    ELSE /\ cycle < MaxCycles
         /\ cycle' = cycle + 1
         /\ response_values' = response_values
         /\ answered' = 0
         /\ next_GS4_request(GS4_point_list, response_values, 0, cycle + 1)
         /\ UNCHANGED <<confvars, mqttvars, arduino1_busy, deferredFns>>

\* PrairieDog.process_task: the recurring task's timer tick
process_task ==
    IF is_busy
    THEN /\ last' = "is_busy"
         /\ UNCHANGED <<confvars, pollvars, mqttvars>>
    ELSE /\ cycle < MaxCycles
         /\ cycle' = cycle + 1
         /\ response_values' = <<>>
         /\ answered' = 0
         /\ next_GS4_request(GS4_point_list, <<>>, 0, cycle + 1)
         /\ UNCHANGED <<confvars, mqttvars, arduino1_busy, deferredFns>>

\* the callback queueing next_GS4_request in its branch and again at its end
GS4_request_callback_defers_twice(kind) ==
    /\ iocbs # <<>>
    /\ LET iocb == Head(iocbs)
       IN  /\ iocbs' = Tail(iocbs)
           /\ answered' = answered + 1
           /\ IF kind = "Err"
              THEN /\ response_values' =
                          Append(response_values, Value("Err", iocb.pt, iocb.cyc))
                   /\ deferredFns' = deferredFns + 2
                   /\ raised' = raised
                   /\ last' = "ioError"
              ELSE IF kind = "Ok"
              THEN /\ response_values' =
                          Append(response_values, Value("Ok", iocb.pt, iocb.cyc))
                   /\ deferredFns' = deferredFns + 2
                   /\ raised' = raised
                   /\ last' = "ioResponse"
              ELSE IF kind = "BadType"
              THEN /\ raised' = "TypeError"
                   /\ last' = "raise"
                   /\ deferredFns' = deferredFns
                   /\ UNCHANGED response_values
              ELSE /\ deferredFns' = deferredFns + 1
                   /\ last' = "no_result"
                   /\ UNCHANGED <<response_values, raised>>
    /\ UNCHANGED <<confvars, mqttvars, GS4_busy, arduino1_busy, point_queue,
                   published, cycle, issued>>

\* the callback queueing next_GS4_request before it decodes the response
GS4_request_callback_defers_before_decode(kind) ==
    /\ iocbs # <<>>
    /\ LET iocb == Head(iocbs)
       IN  /\ iocbs' = Tail(iocbs)
           /\ answered' = answered + 1
           /\ IF kind = "Err"
              THEN /\ response_values' =
                          Append(response_values, Value("Err", iocb.pt, iocb.cyc))
                   /\ deferredFns' = deferredFns + 1
                   /\ raised' = raised
                   /\ last' = "ioError"
              ELSE IF kind = "Ok"
              THEN /\ response_values' =
                          Append(response_values, Value("Ok", iocb.pt, iocb.cyc))
                   /\ deferredFns' = deferredFns + 1
                   /\ raised' = raised
                   /\ last' = "ioResponse"
              ELSE IF kind = "BadType"
              THEN /\ raised' = "TypeError"
                   /\ last' = "raise"
                   /\ deferredFns' = deferredFns + 1
                   /\ UNCHANGED response_values
              ELSE /\ deferredFns' = deferredFns + 1
                   /\ last' = "no_result"
                   /\ UNCHANGED <<response_values, raised>>
    /\ UNCHANGED <<confvars, mqttvars, GS4_busy, arduino1_busy, point_queue,
                   published, cycle, issued>>

\* the callback returning after it has recorded an error
GS4_request_callback_stops_on_error(kind) ==
    /\ iocbs # <<>>
    /\ LET iocb == Head(iocbs)
       IN  /\ iocbs' = Tail(iocbs)
           /\ answered' = answered + 1
           /\ IF kind = "Err"
              THEN /\ response_values' =
                          Append(response_values, Value("Err", iocb.pt, iocb.cyc))
                   /\ deferredFns' = deferredFns
                   /\ raised' = raised
                   /\ last' = "ioError"
              ELSE IF kind = "Ok"
              THEN /\ response_values' =
                          Append(response_values, Value("Ok", iocb.pt, iocb.cyc))
                   /\ deferredFns' = deferredFns + 1
                   /\ raised' = raised
                   /\ last' = "ioResponse"
              ELSE IF kind = "BadType"
              THEN /\ raised' = "TypeError"
                   /\ last' = "raise"
                   /\ deferredFns' = deferredFns
                   /\ UNCHANGED response_values
              ELSE /\ deferredFns' = deferredFns + 1
                   /\ last' = "no_result"
                   /\ UNCHANGED <<response_values, raised>>
    /\ UNCHANGED <<confvars, mqttvars, GS4_busy, arduino1_busy, point_queue,
                   published, cycle, issued>>

\* PrairieDog.GS4_request_callback for the oldest request in flight
GS4_request_callback(kind) ==
    /\ iocbs # <<>>
    /\ LET iocb == Head(iocbs)
       IN  /\ iocbs' = Tail(iocbs)
           /\ answered' = answered + 1
           /\ IF kind = "Err"
              THEN /\ response_values' =
                          Append(response_values, Value("Err", iocb.pt, iocb.cyc))
                   /\ deferredFns' = deferredFns + 1
                   /\ raised' = raised
                   /\ last' = "ioError"
              ELSE IF kind = "Ok"
              THEN /\ response_values' =
                          Append(response_values, Value("Ok", iocb.pt, iocb.cyc))
                   /\ deferredFns' = deferredFns + 1
                   /\ raised' = raised
                   /\ last' = "ioResponse"
              ELSE IF kind = "BadType"
              THEN /\ raised' = "TypeError"
                   /\ last' = "raise"
                   /\ UNCHANGED <<response_values, deferredFns>>
              ELSE /\ deferredFns' = deferredFns + 1
                   /\ last' = "no_result"
                   /\ UNCHANGED <<response_values, raised>>
    /\ UNCHANGED <<confvars, mqttvars, GS4_busy, arduino1_busy, point_queue,
                   published, cycle, issued>>

\* the event loop runs a deferred next_GS4_request
run_deferred ==
    /\ deferredFns > 0
    /\ deferredFns' = deferredFns - 1
    /\ next_GS4_request(point_queue, response_values, issued, cycle)
    /\ UNCHANGED <<confvars, mqttvars, arduino1_busy, response_values, cycle,
                   answered>>

\* ------------------------------------------------------------ mqtt side
\* "mqtt_connected = v" inside on_mqtt_connect / on_mqtt_disconnect: the
\* handlers are nested in mqtt_init and declare the name neither global nor
\* nonlocal, so the assignment binds a local of the handler and the module
\* global keeps its value
handler_assigns_mqtt_connected(v) == mqtt_connected' = mqtt_connected

\* on_mqtt_connect(client, userdata, flags, rc): the broker answers a
\* connection attempt
on_mqtt_connect(rc) ==
    /\ rc_pc = "idle"
    /\ ~broker_link
    /\ IF rc = 0
       THEN /\ handler_assigns_mqtt_connected(TRUE)
            /\ subscribed' = { mqtt_JGCB_topics[i] : i \in 1..Len(mqtt_JGCB_topics) }
            /\ broker_link' = TRUE
            /\ last' = "on_mqtt_connect"
       ELSE /\ UNCHANGED <<mqtt_connected, subscribed, broker_link>>
            /\ last' = "on_mqtt_connect_failed"
    /\ UNCHANGED <<confvars, pollvars, rc_pc, reconnect_delay, failures,
                   fallback_count>>

\* on_mqtt_disconnect giving up the poll cycle under way
on_mqtt_disconnect_releases_busy ==
    /\ rc_pc = "idle"
    /\ broker_link
    /\ broker_link' = FALSE
    /\ handler_assigns_mqtt_connected(FALSE)
    /\ reconnect_delay' = mqtt_first_reconnect_delay
    /\ failures' = 0
    /\ fallback_count' = 0
    /\ rc_pc' = "sleep"
    /\ last' = "on_mqtt_disconnect"
    /\ GS4_busy' = FALSE
    /\ point_queue' = <<>>
    /\ UNCHANGED <<confvars, arduino1_busy, response_values, iocbs,
                   deferredFns, raised, published, cycle, issued, answered,
                   subscribed>>

\* on_mqtt_disconnect up to the first time.sleep
on_mqtt_disconnect ==
    /\ rc_pc = "idle"
    /\ broker_link
    /\ broker_link' = FALSE
    /\ handler_assigns_mqtt_connected(FALSE)
    /\ reconnect_delay' = mqtt_first_reconnect_delay
    /\ failures' = 0
    /\ fallback_count' = 0
    /\ rc_pc' = "sleep"
    /\ last' = "on_mqtt_disconnect"
    /\ UNCHANGED <<confvars, pollvars, subscribed>>

\* time.sleep(reconnect_delay) returns
reconnect_sleep ==
    /\ rc_pc = "sleep"
    /\ rc_pc' = "attempt"
    /\ last' = "sleep"
    /\ UNCHANGED <<confvars, pollvars, subscribed, mqtt_connected, broker_link,
                   reconnect_delay, failures, fallback_count>>

\* the loop body without the min() that caps the delay
reconnect_attempt_no_cap(ok) ==
    /\ rc_pc = "attempt"
    /\ IF ok
       THEN /\ broker_link' = TRUE
            /\ handler_assigns_mqtt_connected(TRUE)
            /\ rc_pc' = "idle"
            /\ reconnect_delay' = 0
            /\ failures' = 0
            /\ fallback_count' = 0
            /\ last' = "reconnected"
       ELSE /\ failures < MaxFailures
            /\ failures' = failures + 1
            /\ fallback_count' = IF reconnect_delay = mqtt_max_reconnect_delay
                                 THEN fallback_count + 1
                                 ELSE fallback_count
            /\ reconnect_delay' = reconnect_delay * mqtt_reconnect_rate
            /\ rc_pc' = "sleep"
            /\ last' = "reconnect_failed"
            /\ UNCHANGED <<broker_link, mqtt_connected>>
    /\ UNCHANGED <<confvars, pollvars, subscribed>>

\* the loop body testing for the maximum after it has grown the delay
reconnect_attempt_checks_after_update(ok) ==
    /\ rc_pc = "attempt"
    /\ IF ok
       THEN /\ broker_link' = TRUE
            /\ handler_assigns_mqtt_connected(TRUE)
            /\ rc_pc' = "idle"
            /\ reconnect_delay' = 0
            /\ failures' = 0
            /\ fallback_count' = 0
            /\ last' = "reconnected"
       ELSE /\ failures < MaxFailures
            /\ failures' = failures + 1
            /\ reconnect_delay' =
                   Min(reconnect_delay * mqtt_reconnect_rate, mqtt_max_reconnect_delay)
            /\ fallback_count' = IF reconnect_delay' = mqtt_max_reconnect_delay
                                 THEN fallback_count + 1
                                 ELSE fallback_count
            /\ rc_pc' = "sleep"
            /\ last' = "reconnect_failed"
            /\ UNCHANGED <<broker_link, mqtt_connected>>
    /\ UNCHANGED <<confvars, pollvars, subscribed>>

\* the loop body returning from the handler once the fallback branch is taken
reconnect_attempt_gives_up_at_cap(ok) ==
    /\ rc_pc = "attempt"
    /\ IF ok
       THEN /\ broker_link' = TRUE
            /\ handler_assigns_mqtt_connected(TRUE)
            /\ rc_pc' = "idle"
            /\ reconnect_delay' = 0
            /\ failures' = 0
            /\ fallback_count' = 0
            /\ last' = "reconnected"
       ELSE /\ failures < MaxFailures
            /\ failures' = failures + 1
            /\ fallback_count' = IF reconnect_delay = mqtt_max_reconnect_delay
                                 THEN fallback_count + 1
                                 ELSE fallback_count
            /\ reconnect_delay' =
                   Min(reconnect_delay * mqtt_reconnect_rate, mqtt_max_reconnect_delay)
            /\ rc_pc' = IF reconnect_delay = mqtt_max_reconnect_delay
                        THEN "idle" ELSE "sleep"
            /\ last' = "reconnect_failed"
            /\ UNCHANGED <<broker_link, mqtt_connected>>
    /\ UNCHANGED <<confvars, pollvars, subscribed>>

\* client.reconnect() and the rest of the loop body: return on success;
\* else take the fallback branch if the delay just waited is the maximum,
\* grow the delay and loop
reconnect_attempt(ok) ==
    /\ rc_pc = "attempt"
    /\ IF ok
       THEN /\ broker_link' = TRUE
            /\ handler_assigns_mqtt_connected(TRUE)
            /\ rc_pc' = "idle"
            /\ reconnect_delay' = 0
            /\ failures' = 0
            /\ fallback_count' = 0
            /\ last' = "reconnected"
       ELSE /\ failures < MaxFailures
            /\ failures' = failures + 1
            /\ fallback_count' = IF reconnect_delay = mqtt_max_reconnect_delay
                                 THEN fallback_count + 1
                                 ELSE fallback_count
            /\ reconnect_delay' =
                   Min(reconnect_delay * mqtt_reconnect_rate, mqtt_max_reconnect_delay)
            /\ rc_pc' = "sleep"
            /\ last' = "reconnect_failed"
            /\ UNCHANGED <<broker_link, mqtt_connected>>
    /\ UNCHANGED <<confvars, pollvars, subscribed>>

\* -------------------------------------------------------- specification
\* PrairieDog.__init__ and the module globals, for each configuration
Init ==
    /\ GS4_point_list \in PointLists
    /\ mqtt_JGCB_topics \in TopicLists
    /\ GS4_busy = FALSE
    /\ arduino1_busy = FALSE
    /\ point_queue = <<>>
    /\ response_values = <<>>
    /\ iocbs = <<>>
    /\ deferredFns = 0
    /\ raised = "none"
    /\ published = <<>>
    /\ subscribed = {}
    /\ mqtt_connected = FALSE
    /\ broker_link = FALSE
    /\ rc_pc = "idle"
    /\ reconnect_delay = 0
    /\ failures = 0
    /\ fallback_count = 0
    /\ cycle = 0
    /\ issued = 0
    /\ answered = 0
    /\ last = "init"

\* the event-loop thread is not inside on_mqtt_disconnect's loop
loop_free == rc_pc = "idle"

Tick == loop_free /\ process_task
Response == loop_free /\ \E kind \in Responses : GS4_request_callback(kind)
Deferred == loop_free /\ run_deferred
Connect == \E rc \in {0, 1} : on_mqtt_connect(rc)
Disconnect == on_mqtt_disconnect
Sleep == reconnect_sleep
Reconnect == \E ok \in BOOLEAN : reconnect_attempt(ok)

Next ==
    \/ Tick
    \/ Response
    \/ Deferred
    \/ Connect
    \/ Disconnect
    \/ Sleep
    \/ Reconnect

Spec == Init /\ [][Next]_vars

\* The same program on the shorter point lists with one topic, with the
\* progress its environment gives it: time.sleep returns, client.reconnect
\* returns or raises, and whenever the thread is back in the event loop a
\* pass of the loop delivers the answer of the request in flight and runs the
\* functions deferred to it (strong fairness: the reconnect loop takes the
\* thread away again and again, but not for ever).
LiveInit ==
    /\ Init
    /\ Len(GS4_point_list) <= MaxLivePoints
    /\ Len(mqtt_JGCB_topics) = 1

LiveSpec ==
    /\ LiveInit
    /\ [][Next]_vars
    /\ WF_vars(Sleep)
    /\ WF_vars(Reconnect)
    /\ SF_vars(Response)
    /\ SF_vars(Deferred)

\* ---------------------------------------------------------------- claims
\* some subsystem flag is set
AnyBusy == GS4_busy \/ arduino1_busy

\* an unknown datatype stopped the cycle (on building a request or on
\* decoding a response)
Aborted == raised \in {"ValueError", "TypeError"}

\* read_GS4_complete has been entered: it returned, or it raised in its loop
Completed == last = "read_GS4_complete" \/ raised = "IndexError"

\* the publish calls that carry a result of cycle c
PublishedOfCycle(c) ==
    SelectSeq(published, LAMBDA m : m.topic.cyc = c \/ m.payload.cyc = c)

\* C1: when a cycle reaches read_GS4_complete there are as many collected
\* results as configured points, and the i-th result is the response (a value
\* or an error) to the i-th point of the list, obtained in this cycle.
C1_CompleteCycleCollectsAllInOrder ==
    Completed =>
        /\ Len(response_values) = Len(GS4_point_list)
        /\ \A i \in 1..Len(response_values) :
               /\ response_values[i].pt = GS4_point_list[i].id
               /\ response_values[i].cyc = cycle
               /\ response_values[i].kind \in {"Ok", "Err"}

C1_Witness ==
    /\ last = "read_GS4_complete"
    /\ Len(GS4_point_list) = GroupSize * Len(mqtt_JGCB_topics)
    /\ Len(mqtt_JGCB_topics) = 2
    /\ \E i, j \in 1..Len(response_values) :
           response_values[i].kind = "Ok" /\ response_values[j].kind = "Err"

\* C2: at most one request is in flight, and the requests issued in a cycle
\* never outnumber the callbacks run in it by more than that one request.
C2_OneOutstandingRequest ==
    /\ Len(iocbs) <= 1
    /\ issued = answered + Len(iocbs)
    /\ deferredFns > 0 => iocbs = <<>>

C2_Witness ==
    /\ issued = 3
    /\ answered = 2
    /\ Len(iocbs) = 1

\* C3: a step taken while a busy flag is set never starts a poll cycle: the
\* cycle count, and with it the reset of queue and response list, stay put
\* unless both flags were clear.
C3_BusyBlocksNewCycle ==
    [][AnyBusy => cycle' = cycle]_vars

C3_Witness ==
    /\ last = "is_busy"
    /\ GS4_busy
    /\ cycle < MaxCycles

\* C4: after a cycle has hit an unknown datatype the busy flag is released.
C4_AbortReleasesBusy ==
    Aborted => ~GS4_busy

\* C5: a cycle stopped by an unknown datatype has collected exactly the
\* results of the points before the offending one, has no request in flight
\* and none queued, has published nothing, and stays that way.
C5_AbortStopsCycle ==
    /\ [](Aborted =>
            /\ Len(response_values) + 1 = Len(GS4_point_list) - Len(point_queue)
            /\ \A i \in 1..Len(response_values) :
                   response_values[i].pt = GS4_point_list[i].id
            /\ iocbs = <<>>
            /\ deferredFns = 0
            /\ PublishedOfCycle(cycle) = <<>>)
    /\ [][Aborted => UNCHANGED <<response_values, point_queue, iocbs, issued,
                                 published, cycle>>]_vars

\* Scenario B: four points, the second answered with an error, the third with
\* an unknown datatype
C5_Witness ==
    /\ Len(GS4_point_list) = 4
    /\ raised = "TypeError"
    /\ Len(response_values) = 2
    /\ response_values[1].kind = "Ok"
    /\ response_values[2].kind = "Err"
    /\ Len(point_queue) = 1
    /\ published = <<>>

\* C6: the callback of a request that came back with an error appends that
\* error as the result of the request's point, queues the next request and
\* raises nothing; the busy flag and the pending queue are left alone.
C6_ErrorIsCollected ==
    [][(last' = "ioError" /\ answered' = answered + 1) =>
            /\ iocbs # <<>>
            /\ response_values' =
                   Append(response_values, Value("Err", Head(iocbs).pt, cycle))
            /\ deferredFns' = deferredFns + 1
            /\ raised' = raised
            /\ UNCHANGED <<GS4_busy, point_queue, cycle>>]_vars

\* a cycle with an error in it has run to completion and released the flag
C6_Witness ==
    /\ last = "read_GS4_complete"
    /\ ~GS4_busy
    /\ \E i \in 1..Len(response_values) : response_values[i].kind = "Err"

\* C7: a tick that finds a busy flag set changes nothing of the poll state,
\* the connection state or the configuration, and a cycle only ever starts in
\* a step that found both flags clear, so a refused tick starts none later.
C7_BusyTickDropped ==
    /\ [][(AnyBusy /\ last' = "is_busy") =>
              UNCHANGED <<confvars, pollvars, mqttvars>>]_vars
    /\ [][cycle' # cycle =>
              ~AnyBusy /\ cycle' = cycle + 1 /\ last' # "is_busy"]_vars

C7_Witness ==
    /\ last = "is_busy"
    /\ GS4_busy
    /\ iocbs # <<>>
    /\ response_values # <<>>
    /\ point_queue # <<>>

\* C8: the flag read_GS4_complete reads tells whether the broker link is up.
C8_FlagFollowsLink ==
    mqtt_connected = broker_link

\* the publish calls C9 expects of a completed cycle: for group i and k in
\* 0..3, value response_values[4*i+k] to topic i
ExpectedPublishes ==
    [j \in 1..(GroupSize * Len(mqtt_JGCB_topics)) |->
        [topic   |-> TopicArg(mqtt_JGCB_topics[((j - 1) \div GroupSize) + 1]),
         payload |-> response_values[j]]]

\* C9: a cycle that completes while the broker link is up has published each
\* value of each group once, to the group's topic.
C9_CompletedCyclePublished ==
    (last = "read_GS4_complete" /\ broker_link) =>
        PublishedOfCycle(cycle) = ExpectedPublishes

\* C10: a cycle of a non-empty point list that reaches completion while
\* disconnected publishes nothing and releases the busy flag.
C10_DisconnectedCycleDropsAndReleases ==
    (Completed /\ Len(GS4_point_list) > 0 /\ ~broker_link /\ ~mqtt_connected) =>
        /\ PublishedOfCycle(cycle) = <<>>
        /\ ~GS4_busy

\* C11: a configuration whose point count differs from 4 points per topic
\* is rejected before any poll cycle starts, and read_GS4_complete never
\* indexes response_values out of range.
C11_MismatchStopsAtStartup ==
    /\ Len(GS4_point_list) # GroupSize * Len(mqtt_JGCB_topics) => cycle = 0
    /\ raised # "IndexError"

\* the wait before the attempt that follows n failed ones, as C12 states it
RECURSIVE BackoffDelay(_)
BackoffDelay(n) ==
    IF n = 0 THEN mqtt_first_reconnect_delay
    ELSE Min(BackoffDelay(n - 1) * mqtt_reconnect_rate, mqtt_max_reconnect_delay)

\* the number of failures after which the wait is the maximum
CapAfter ==
    CHOOSE n \in 0..MaxFailures :
        /\ BackoffDelay(n) = mqtt_max_reconnect_delay
        /\ \A m \in 0..(n - 1) : BackoffDelay(m) < mqtt_max_reconnect_delay

\* C12: while the reconnect loop runs, the wait is the first delay before the
\* first attempt and min(previous * rate, max) after each failure; it never
\* shrinks, never exceeds the maximum, and is the maximum from a fixed
\* number of failures on.
C12_BackoffSequence ==
    /\ [](rc_pc # "idle" =>
            /\ reconnect_delay = BackoffDelay(failures)
            /\ reconnect_delay <= mqtt_max_reconnect_delay
            /\ (failures >= CapAfter => reconnect_delay = mqtt_max_reconnect_delay))
    /\ [][(rc_pc = "idle" /\ rc_pc' # "idle") =>
              reconnect_delay' = mqtt_first_reconnect_delay]_vars
    /\ [][(rc_pc = "attempt" /\ rc_pc' = "sleep") =>
              /\ reconnect_delay' =
                     Min(reconnect_delay * mqtt_reconnect_rate, mqtt_max_reconnect_delay)
              /\ reconnect_delay' >= reconnect_delay]_vars

C12_Witness ==
    /\ rc_pc = "sleep"
    /\ failures = CapAfter + 1
    /\ reconnect_delay = mqtt_max_reconnect_delay

\* C13: within one disconnection the fallback branch is taken at most once.
C13_FallbackOnce ==
    fallback_count <= 1

\* the waits of Scenario C before attempts 1..8, in hundredths of a second
ScenarioWaits == <<125, 250, 500, 1000, 2000, 4000, 8000, 16000>>

\* C14: with delays 1.25 s, x2, 320 s the waits before attempts 1..8 are
\* 1.25 .. 160 s, the wait is 320 s from the 9th attempt on, and the fallback
\* branch is first taken on the 9th failure.
C14_ScenarioC ==
    rc_pc # "idle" =>
        /\ failures < 8 => reconnect_delay = ScenarioWaits[failures + 1]
        /\ failures >= 8 => reconnect_delay = 32000
        /\ failures <= 8 => fallback_count = 0
        /\ failures = 9 => fallback_count = 1

C14_Witness ==
    /\ rc_pc = "sleep"
    /\ failures = 9
    /\ fallback_count = 1
    /\ reconnect_delay = 32000

\* C15: the reconnect loop is left only by a successful attempt, and every
\* wait it enters is followed by another attempt.
C15_NeverGivesUp ==
    /\ [][(rc_pc # "idle" /\ rc_pc' = "idle") =>
              rc_pc = "attempt" /\ broker_link']_vars
    /\ (rc_pc = "sleep") ~> (rc_pc = "attempt")

\* an attempt is made after the fallback branch has been taken
C15_Witness ==
    /\ rc_pc = "attempt"
    /\ fallback_count >= 1
    /\ failures > CapAfter

\* C16: while the reconnect loop waits or retries, a tick, the callback of a
\* request in flight and a deferred next request can each run.
C16_PollRunsDuringReconnect ==
    rc_pc # "idle" =>
        /\ ENABLED Tick
        /\ (iocbs # <<>> => ENABLED Response)
        /\ (deferredFns > 0 => ENABLED Deferred)

\* C17: a cycle starts only when nothing of an earlier cycle is pending (no
\* request in flight, no deferred request, an empty queue), and every
\* collected result and every request in flight belongs to the current cycle.
C17_OneCycleInFlight ==
    /\ [][cycle' # cycle =>
              iocbs = <<>> /\ deferredFns = 0 /\ point_queue = <<>>]_vars
    /\ [](/\ \A i \in 1..Len(response_values) : response_values[i].cyc = cycle
          /\ \A i \in 1..Len(iocbs) : iocbs[i].cyc = cycle)

\* a second cycle under way, after the first has completed
C17_Witness ==
    /\ cycle = 2
    /\ iocbs # <<>>
    /\ response_values # <<>>

\* C18: a cycle that has started ends with the busy flag cleared, unless a
\* request of it is answered with an unknown datatype.
C18_StartedCycleCompletes ==
    (GS4_busy /\ GS4_point_list # <<>>) ~> (~GS4_busy \/ raised = "TypeError")

\* C19: a tick that finds both flags clear is never refused, and the cycle
\* that a tick starts after an earlier one has completed begins with the
\* whole point list less its first point queued, that point requested, and an
\* empty response list.
C19_FreshCycleAfterRelease ==
    /\ [][~AnyBusy => last' # "is_busy"]_vars
    /\ [][(cycle' # cycle /\ cycle > 0) =>
              /\ ~AnyBusy
              /\ GS4_point_list # <<>>
              /\ point_queue' = Tail(GS4_point_list)
              /\ response_values' = <<>>
              /\ iocbs' = <<[pt |-> Head(GS4_point_list).id, cyc |-> cycle + 1]>>
              /\ GS4_busy']_vars

C19_Witness ==
    /\ cycle = 2
    /\ last = "request_io"
    /\ issued = 1
    /\ response_values = <<>>
    /\ Len(point_queue) + 1 = Len(GS4_point_list)

\* the number of points taken off the queue in the current cycle
Dequeued == Len(GS4_point_list) - Len(point_queue)

\* the collected results are those of the first points of the list, in order
InTableOrder ==
    \A i \in 1..Len(response_values) :
        i <= Len(GS4_point_list) /\ response_values[i].pt = GS4_point_list[i].id

\* C20 as stated: in a cycle there are as many collected results as points
\* taken off the queue, in list order.
C20_LengthEqualsDequeued ==
    cycle > 0 => (Len(response_values) = Dequeued /\ InTableOrder)

\* C20 amended: the collected results number the points taken off the queue
\* less the one whose request is in flight or whose unknown datatype stopped
\* the cycle, and they are in list order.
C20_LengthEqualsAnswered ==
    cycle > 0 =>
        /\ Len(response_values) + Len(iocbs) + (IF Aborted THEN 1 ELSE 0) = Dequeued
        /\ InTableOrder

C20_Witness ==
    /\ cycle > 0
    /\ Len(iocbs) = 1
    /\ Len(response_values) = 2
    /\ Dequeued = 3

\* C21: the publish calls and the clearing of the busy flag happen only in a
\* step taken with the pending queue empty, no request in flight and every
\* request of the cycle answered; a publish is made while the flag is still
\* set and carries a result of the current cycle; the flag is clear only
\* between cycles, and a cycle starts only with the flag clear and nothing of
\* the earlier cycle pending.
C21_PublishAndReleaseOnlyAtCompletion ==
    /\ [][(published' # published \/ (GS4_busy /\ ~GS4_busy')) =>
              /\ point_queue = <<>>
              /\ point_queue' = <<>>
              /\ iocbs = <<>>
              /\ issued = answered
              /\ cycle' = cycle
              /\ GS4_busy]_vars
    /\ [][\A i \in (Len(published) + 1)..Len(published') :
              published'[i].topic.cyc = cycle]_vars
    /\ []((~GS4_busy /\ cycle > 0) =>
              /\ point_queue = <<>>
              /\ iocbs = <<>>
              /\ deferredFns = 0
              /\ issued = answered
              /\ Len(response_values) = Len(GS4_point_list))
    /\ [][cycle' # cycle =>
              ~GS4_busy /\ iocbs = <<>> /\ deferredFns = 0 /\ issued = answered]_vars

\* the second cycle of the full point list has completed and released the flag
C21_Witness ==
    /\ cycle = 2
    /\ last = "read_GS4_complete"
    /\ ~GS4_busy
    /\ point_queue = <<>>
    /\ issued = MaxPoints
    /\ answered = MaxPoints

\* where each handler of the poll side and of the connection side stops
PollStops == {"is_busy", "request_io", "raise", "read_GS4_complete", "ioError",
              "ioResponse", "no_result"}
MqttStops == {"on_mqtt_connect", "on_mqtt_connect_failed", "on_mqtt_disconnect",
              "sleep", "reconnected", "reconnect_failed"}

\* C22: a tick, a request, a response callback and the completion leave the
\* connection flag, the broker link, the reconnect loop's position, its delay
\* and its counters alone; a connect, a disconnect, a wait and a reconnect
\* attempt leave the queue, the response list, the busy flags, the requests
\* in flight and the publish calls alone.
C22_SidesDoNotInterfere ==
    [][/\ last' \in PollStops \cup MqttStops
       /\ last' \in PollStops => UNCHANGED mqttvars
       /\ last' \in MqttStops => UNCHANGED pollvars]_vars

\* the reconnect loop has failed twice while a cycle is half way through
C22_Witness ==
    /\ rc_pc = "sleep"
    /\ failures = 2
    /\ GS4_busy
    /\ iocbs # <<>>
    /\ Len(response_values) = 2
    /\ point_queue # <<>>

====
